---- MODULE Spec2Model ----
(***************************************************************************)
(* Supervised word sense disambiguation notebook                           *)
(* (src/SupervisedWSD/NaiveBayes.ipynb): loading of the sense-tagged       *)
(* instances, context extraction, co-occurrence vocabulary, feature        *)
(* records and the per-label train/test split.                             *)
(*                                                                         *)
(* Python strings are sequences of one-character strings; Python lists and *)
(* tuples are sequences; list positions are 0-based in the code and are    *)
(* kept 0-based in the state (element p of a list s is s[p + 1]).          *)
(***************************************************************************)
EXTENDS Integers, Sequences, FiniteSets, TLC

\* ------------------------------------------------------------------ bounds

\* Number of corpus instances senseval.instances yields over all files.
MaxInstances == 3
\* Largest value tried for the window size `context`.
MaxContext == 2
\* Largest value tried for `num_co_ocurrences`.
MaxCoOcurrences == 2

\* ------------------------------------------------------- Python primitives

Min(a, b) == IF a < b THEN a ELSE b
Max(a, b) == IF a > b THEN a ELSE b

\* s[i:]
PySliceFrom(s, i) ==
    LET start == IF i < 0 THEN Max(Len(s) + i, 0) ELSE Min(i, Len(s))
    IN  SubSeq(s, start + 1, Len(s))

\* s[:j]
PySliceTo(s, j) ==
    LET stop == IF j < 0 THEN Max(Len(s) + j, 0) ELSE Min(j, Len(s))
    IN  SubSeq(s, 1, stop)

\* a in b, for two strings
IsSubstring(a, b) ==
    \E i \in 0..(Len(b) - Len(a)) : SubSeq(b, i + 1, i + Len(a)) = a

\* x in s, for a list s
InList(x, s) == \E i \in 1..Len(s) : s[i] = x

UpperCase == <<"A","B","C","D","E","F","G","H","I","J","K","L","M",
               "N","O","P","Q","R","S","T","U","V","W","X","Y","Z">>
LowerCase == <<"a","b","c","d","e","f","g","h","i","j","k","l","m",
               "n","o","p","q","r","s","t","u","v","w","x","y","z">>
Digits == {"0","1","2","3","4","5","6","7","8","9"}
WhiteSpace == {" ", "\t", "\n", "\r", "\f"}

\* string.punctuation; the grave accent, which a TLA+ string cannot hold, is
\* the character written "GRAVE"
Punctuation == {"!", "\"", "#", "$", "%", "&", "'", "(", ")", "*", "+", ",",
                "-", ".", "/", ":", ";", "<", "=", ">", "?", "@", "[", "\\",
                "]", "^", "_", "GRAVE", "{", "|", "}", "~"}

\* the class \w of the tokenizer's pattern
WordChars ==
    {UpperCase[i] : i \in 1..26} \cup {LowerCase[i] : i \in 1..26} \cup Digits \cup {"_"}

IsWordChar(c) == c \in WordChars

\* the class [^\w\s] of the tokenizer's pattern
IsPunctChar(c) == ~IsWordChar(c) /\ c \notin WhiteSpace

\* str.lower(), character by character
LowerOf == [c \in {UpperCase[i] : i \in 1..26} |->
               LowerCase[CHOOSE i \in 1..26 : UpperCase[i] = c]]

Lower(s) == [k \in 1..Len(s) |-> IF s[k] \in DOMAIN LowerOf THEN LowerOf[s[k]] ELSE s[k]]

\* word.translate(translator): every punctuation character removed
Translate(s) == SelectSeq(s, LAMBDA c : c \notin Punctuation)

\* SplitDotFirst without the split: the word is kept whole.
SplitDotFirst_NoSplit(s) == s

\* targetword.split('.')[0]
SplitDotFirst(s) ==
    IF \E i \in 1..Len(s) : s[i] = "."
    THEN SubSeq(s, 1, (CHOOSE i \in 1..Len(s) :
                          s[i] = "." /\ \A j \in 1..(i - 1) : s[j] # ".") - 1)
    ELSE s

\* WordPunctTokenizer().tokenize(s): the matches of \w+|[^\w\s]+ ; only the
\* first match is used by the code.  `raised` is the IndexError of [0] on an
\* empty list of matches.
FirstToken(s) ==
    IF \A i \in 1..Len(s) : s[i] \in WhiteSpace
    THEN [raised |-> TRUE, value |-> <<>>]
    ELSE LET b == CHOOSE i \in 1..Len(s) :
                     s[i] \notin WhiteSpace /\ \A j \in 1..(i - 1) : s[j] \in WhiteSpace
             word == IsWordChar(s[b])
             SameClass(c) == IF word THEN IsWordChar(c) ELSE IsPunctChar(c)
             e == CHOOSE j \in b..Len(s) :
                     /\ \A k \in b..j : SameClass(s[k])
                     /\ (j = Len(s) \/ ~SameClass(s[j + 1]))
         IN  [raised |-> FALSE, value |-> SubSeq(s, b, e)]


\* ------------------------------------------------------------ the corpus

\* What senseval.instances(file) can yield: the fields word, context (a list
\* of (token, POS) pairs), position and senses (a tuple of sense ids).
\*   1: "Guitar and bass player stand", target 2, two senses s1 and s10
\*   2: "`` the player 's basses .", target 4, one sense s1
\*   3: "line.n phone x U.S.", target 0, two senses s2 and s3
\*   4: "phone <blank> line", target 2, one sense s2
SensevalInstances ==
    { [word     |-> <<"b","a","s","s","-","n">>,
       context  |-> << << <<"G","u","i","t","a","r">>, "NN" >>,
                       << <<"a","n","d">>, "CC" >>,
                       << <<"b","a","s","s">>, "NN" >>,
                       << <<"p","l","a","y","e","r">>, "NN" >>,
                       << <<"s","t","a","n","d">>, "VB" >> >>,
       position |-> 2,
       senses   |-> << <<"s","1">>, <<"s","1","0">> >>],
      [word     |-> <<"b","a","s","s","-","n">>,
       context  |-> << << <<"GRAVE","GRAVE">>, "OPENQUOTE" >>,
                       << <<"t","h","e">>, "DT" >>,
                       << <<"p","l","a","y","e","r">>, "NN" >>,
                       << <<"'","s">>, "POS" >>,
                       << <<"b","a","s","s","e","s">>, "NNS" >>,
                       << <<".">>, "." >> >>,
       position |-> 4,
       senses   |-> << <<"s","1">> >>],
      [word     |-> <<"l","i","n","e","-","n">>,
       context  |-> << << <<"l","i","n","e",".","n">>, "NN" >>,
                       << <<"p","h","o","n","e">>, "NN" >>,
                       << <<"x">>, "NN" >>,
                       << <<"U",".","S",".">>, "NNP" >> >>,
       position |-> 0,
       senses   |-> << <<"s","2">>, <<"s","3">> >>],
      [word     |-> <<"l","i","n","e","-","n">>,
       context  |-> << << <<"p","h","o","n","e">>, "NN" >>,
                       << <<" ">>, "NN" >>,
                       << <<"l","i","n","e">>, "NN" >> >>,
       position |-> 2,
       senses   |-> << <<"s","2">> >>] }

\* stopwords.words('english'), the entries that matter for the corpus above
StopWords == { <<"a">>, <<"a","n","d">>, <<"t","h","e">>, <<"o","f">>,
               <<"t","o">>, <<"i","n">>, <<"i","s">>, <<"s">> }

\* ------------------------------------------------------- notebook functions

\* tokenize(text): `raised` is the IndexError of tokenizer.tokenize(w[0])[0]
tokenize(text) ==
    IF \E i \in 1..Len(text) : FirstToken(text[i][1]).raised
    THEN [raised |-> TRUE, value |-> <<>>]
    ELSE [raised |-> FALSE,
          value  |-> SelectSeq(
                       [i \in 1..Len(text) |->
                          << Translate(Lower(FirstToken(text[i][1]).value)), text[i][2] >>],
                       LAMBDA w : Len(w[1]) >= 1)]

\* extract_context(target_position, text, context)
extract_context(target_position, text, window) ==
    LET text_wo_target_left  == tokenize(PySliceTo(text, target_position))
        text_wo_target_right == tokenize(PySliceFrom(text, target_position + 1))
    IN  IF text_wo_target_left.raised \/ text_wo_target_right.raised
        THEN [raised |-> TRUE, left |-> <<>>, right |-> <<>>]
        ELSE [raised |-> FALSE,
              left   |-> PySliceFrom(text_wo_target_left.value, 0 - window),
              right  |-> PySliceTo(text_wo_target_right.value, window)]

\* [i[0] for i in left_ctxt] + [i[0] for i in right_ctxt]
ContextText(left_ctxt, right_ctxt) ==
    [i \in 1..Len(left_ctxt) |-> left_ctxt[i][1]] \o
    [i \in 1..Len(right_ctxt) |-> right_ctxt[i][1]]

\* ContextPos with the tags of the right window put first.
ContextPos_RightFirst(left_ctxt, right_ctxt) ==
    [i \in 1..Len(right_ctxt) |-> right_ctxt[i][2]] \o
    [i \in 1..Len(left_ctxt) |-> left_ctxt[i][2]]

\* [i[1] for i in left_ctxt] + [i[1] for i in right_ctxt]
ContextPos(left_ctxt, right_ctxt) ==
    [i \in 1..Len(left_ctxt) |-> left_ctxt[i][2]] \o
    [i \in 1..Len(right_ctxt) |-> right_ctxt[i][2]]

\* CoOccurrenceFeatures comparing position by position instead of testing
\* membership.
CoOccurrenceFeatures_Aligned(context_text, co_occ_vector) ==
    [i \in 1..Len(co_occ_vector) |->
        IF i <= Len(context_text) /\ context_text[i] = co_occ_vector[i] THEN 1 ELSE 0]

\* [1 if i in context_text else 0 for i in co_occ_vector]
CoOccurrenceFeatures(context_text, co_occ_vector) ==
    [i \in 1..Len(co_occ_vector) |->
        IF InList(co_occ_vector[i], context_text) THEN 1 ELSE 0]

\* extract_features(targetword, left_ctxt, right_ctxt, co_occ_vector)
extract_features(targetword, left_ctxt, right_ctxt, co_occ_vector) ==
    [word        |-> SplitDotFirst(targetword),
     co_occ      |-> CoOccurrenceFeatures(ContextText(left_ctxt, right_ctxt), co_occ_vector),
     context     |-> ContextText(left_ctxt, right_ctxt),
     pos_context |-> ContextPos(left_ctxt, right_ctxt)]

\* ---------------------------------------------------------------- FreqDist

Count(x, s) == Cardinality({i \in 1..Len(s) : s[i] = x})

RemoveAt(s, i) == SubSeq(s, 1, i - 1) \o SubSeq(s, i + 1, Len(s))

\* The keys of FreqDist(samples), in the order in which the counter first
\* meets them.
FreqDistKeys(samples) ==
    SelectSeq([i \in 1..Len(samples) |->
                  IF \E j \in 1..(i - 1) : samples[j] = samples[i]
                  THEN <<>> ELSE <<samples[i]>>],
              LAMBDA k : k # <<>>)

\* SortedByCount with items of equal count in reverse order of the keys.
RECURSIVE SortedByCount_LastFirst(_, _)
SortedByCount_LastFirst(keys, samples) ==
    IF keys = <<>> THEN <<>>
    ELSE LET top == CHOOSE i \in 1..Len(keys) :
                      /\ \A j \in 1..Len(keys) :
                            Count(keys[j], samples) <= Count(keys[i], samples)
                      /\ \A j \in (i + 1)..Len(keys) :
                            Count(keys[j], samples) < Count(keys[i], samples)
         IN  << <<keys[top], Count(keys[top], samples)>> >> \o
             SortedByCount_LastFirst(RemoveAt(keys, top), samples)

\* sorted(items, key=count, reverse=True): a stable sort, so that items of
\* equal count keep the order of the keys.
RECURSIVE SortedByCount(_, _)
SortedByCount(keys, samples) ==
    IF keys = <<>> THEN <<>>
    ELSE LET top == CHOOSE i \in 1..Len(keys) :
                      /\ \A j \in 1..Len(keys) :
                            Count(keys[j], samples) <= Count(keys[i], samples)
                      /\ \A j \in 1..(i - 1) :
                            Count(keys[j], samples) < Count(keys[i], samples)
         IN  << <<keys[top], Count(keys[top], samples)>> >> \o
             SortedByCount(RemoveAt(keys, top), samples)

\* FreqDist(samples).most_common(n): heapq.nlargest(n, items, key=count)
most_common(samples, n) ==
    LET keys == [i \in 1..Len(FreqDistKeys(samples)) |-> FreqDistKeys(samples)[i][1]]
    IN  PySliceTo(SortedByCount(keys, samples), n)


\* ------------------------------------------------------------------- state

VARIABLES
    pc,                            \* the cell being run: "load", "vocab", "features", "done", "error"
    context,                       \* window size
    num_co_ocurrences,             \* size of a co-occurrence vocabulary
    heap,                          \* the instance objects, by reference
    instances,                     \* list of references into heap
    labels_classes,                \* list of (word, sense)
    label_sets,                    \* set(labels_classes)
    classwords_todo,               \* class words the vocabulary loop has yet to visit
    classword,                     \* the class word of the last pass of that loop
    lemmas_for_class,              \* its list of context words
    labels_todo,                   \* labels the feature loop has yet to visit
    label,                         \* the label of the last pass of that loop
    co_occurrences_per_classword,  \* class word -> vocabulary
    train_set_per_class,           \* class word -> list of (features, label)
    test_set_per_class,            \* class word -> list of (features, label)
    feature_sets,                  \* the shuffled feature_sets of the last label
    sample,                        \* its split index
    training_set,                  \* its training slice
    test_set,                      \* its test slice; later the merged test set
    classifier,                    \* the classifier of the last training
    accuracy_printed,              \* the accuracy last printed
    total,                         \* the shuffled pool of the merged cell
    divide,                        \* its split index
    train_set,                     \* the merged training set
    context_calls                  \* the calls of extract_context made so far

vars == << pc, context, num_co_ocurrences, heap, instances, labels_classes,
           label_sets, classwords_todo, classword, lemmas_for_class, labels_todo,
           label,
           co_occurrences_per_classword, train_set_per_class,
           test_set_per_class, feature_sets, sample, training_set, test_set,
           classifier, accuracy_printed, total, divide, train_set,
           context_calls >>

\* extract_context on every (position, context) of the corpus and every window
\* size, computed once.
ExtractContextMemo ==
    [a \in {<<i.position, i.context>> : i \in SensevalInstances} \X (0..MaxContext) |->
        extract_context(a[1][1], a[1][2], a[2])]

\* The record kept of one call of extract_context.
ContextCall(target_position, text, window) ==
    [target_position |-> target_position, text |-> text, window |-> window,
     result |-> ExtractContextMemo[<< <<target_position, text>>, window >>]]

\* No classifier has been trained yet.
Untrained == [raised |-> FALSE, key |-> <<>>, labels |-> {}]

\* No accuracy has been printed yet.
NothingPrinted == [nan |-> FALSE, num |-> 0, den |-> 0]

Init ==
    /\ pc = "load"
    /\ context \in 0..MaxContext
    /\ num_co_ocurrences \in 1..MaxCoOcurrences
    /\ heap = <<>>
    /\ instances = <<>>
    /\ labels_classes = <<>>
    /\ label_sets = {}
    /\ classwords_todo = {}
    /\ classword = <<>>
    /\ lemmas_for_class = <<>>
    /\ labels_todo = {}
    /\ label = <<>>
    /\ co_occurrences_per_classword = <<>>
    /\ train_set_per_class = <<>>
    /\ test_set_per_class = <<>>
    /\ feature_sets = <<>>
    /\ sample = 0
    /\ training_set = <<>>
    /\ test_set = <<>>
    /\ context_calls = {}
    /\ classifier = Untrained
    /\ accuracy_printed = NothingPrinted
    /\ total = <<>>
    /\ divide = 0
    /\ train_set = <<>>

\* ----------------------------------------------------------------- loading

\* for sense in senses: temp_instance.senses = sense;
\*                      instances.append(temp_instance);
\*                      labels_classes.append((i.word, sense))
\* from the j-th sense on; st holds heap, instances and labels_classes, ref is
\* the one object temp_instance names throughout the loop.
RECURSIVE SenseLoop(_, _, _, _, _)
SenseLoop(st, ref, word, senses, j) ==
    IF j > Len(senses) THEN st
    ELSE SenseLoop([heap           |-> [st.heap EXCEPT ![ref].senses = senses[j]],
                    instances      |-> Append(st.instances, ref),
                    labels_classes |-> Append(st.labels_classes, <<word, senses[j]>>)],
                   ref, word, senses, j + 1)

\* One pass of "for i in senseval.instances(file)".
LoadInstance ==
    /\ pc = "load"
    /\ Len(heap) < MaxInstances
    /\ \E i \in SensevalInstances :
          LET ref == Len(heap) + 1
              st  == SenseLoop([heap           |-> Append(heap, i),
                                instances      |-> instances,
                                labels_classes |-> labels_classes],
                               ref, i.word, i.senses, 1)
          IN  /\ heap' = st.heap
              /\ instances' = st.instances
              /\ labels_classes' = st.labels_classes
    /\ UNCHANGED << pc, context, num_co_ocurrences, label_sets, classwords_todo,
                    classword, lemmas_for_class, labels_todo, label,
                    co_occurrences_per_classword,
                    train_set_per_class, test_set_per_class, feature_sets,
                    sample, training_set, test_set, context_calls,
                    classifier, accuracy_printed, total, divide, train_set >>

\* The files are exhausted: label_sets = set(labels_classes), and the
\* vocabulary cell starts on set([l[0] for l in label_sets]).
EndLoad ==
    /\ pc = "load"
    /\ label_sets' = {labels_classes[k] : k \in 1..Len(labels_classes)}
    /\ classwords_todo' = {labels_classes[k][1] : k \in 1..Len(labels_classes)}
    /\ pc' = IF labels_classes = <<>> THEN "done" ELSE "vocab"
    /\ UNCHANGED << context, num_co_ocurrences, heap, instances, labels_classes,
                    classword, lemmas_for_class, labels_todo, label,
                    co_occurrences_per_classword,
                    train_set_per_class, test_set_per_class, feature_sets,
                    sample, training_set, test_set, context_calls,
                    classifier, accuracy_printed, total, divide, train_set >>


\* -------------------------------------------------------------- vocabulary

\* ContentWords without its filter.
ContentWords_Unfiltered(ctxt) == [k \in 1..Len(ctxt) |-> ctxt[k][1]]

\* [i[0] for i in ctxt if i[0] not in stopwords.words('english') and len(i[0]) > 1]
ContentWords(ctxt) ==
    LET kept == SelectSeq(ctxt, LAMBDA i : i[1] \notin StopWords /\ Len(i[1]) > 1)
    IN  [k \in 1..Len(kept) |-> kept[k][1]]

\* "for instance in instances" of the vocabulary cell, from list position k
\* on: acc.value is lemmas_for_class, acc.calls the calls of extract_context
\* made, acc.raised whether one of them raised (which ends the cell).
RECURSIVE LemmasLoop(_, _, _)
LemmasLoop(cw, k, acc) ==
    IF k > Len(instances) \/ acc.raised THEN acc
    ELSE LET instance == heap[instances[k]]
             call     == ContextCall(instance.position, instance.context, context)
         IN  IF cw # instance.word
             THEN LemmasLoop(cw, k + 1, acc)
             ELSE LemmasLoop(cw, k + 1,
                     [raised |-> call.result.raised,
                      value  |-> IF call.result.raised THEN acc.value
                                 ELSE acc.value \o ContentWords(call.result.left)
                                                \o ContentWords(call.result.right),
                      calls  |-> acc.calls \cup {call}])

\* CoOccurrences without the limit n.
CoOccurrences_Unlimited(lemmas, n) ==
    LET common == most_common(lemmas, Len(lemmas))
    IN  [k \in 1..Len(common) |-> common[k][1]]

\* [l[0] for l in dist.most_common(num_co_ocurrences)][:num_co_ocurrences]
CoOccurrences(lemmas, n) ==
    LET common == most_common(lemmas, n)
    IN  PySliceTo([k \in 1..Len(common) |-> common[k][1]], n)

\* One pass of "for classword in set([l[0] for l in label_sets])"; a set is
\* visited in no particular order.
BuildCoOccurrences ==
    /\ pc = "vocab"
    /\ \E cw \in classwords_todo :
          LET loop == LemmasLoop(cw, 1, [raised |-> FALSE, value |-> <<>>, calls |-> {}])
          IN  /\ context_calls' = context_calls \cup loop.calls
              /\ classwords_todo' = classwords_todo \ {cw}
              /\ classword' = cw
              /\ lemmas_for_class' = loop.value
              /\ IF loop.raised
                 THEN /\ co_occurrences_per_classword' =
                            (cw :> <<>>) @@ co_occurrences_per_classword
                      /\ pc' = "error"
                      /\ UNCHANGED << train_set_per_class, test_set_per_class, labels_todo >>
                 ELSE /\ co_occurrences_per_classword' =
                            (cw :> CoOccurrences(loop.value, num_co_ocurrences))
                               @@ co_occurrences_per_classword
                      /\ train_set_per_class' = (cw :> <<>>) @@ train_set_per_class
                      /\ test_set_per_class' = (cw :> <<>>) @@ test_set_per_class
                      /\ pc' = IF classwords_todo' = {} THEN "features" ELSE "vocab"
                      /\ labels_todo' = IF classwords_todo' = {} THEN label_sets ELSE labels_todo
    /\ UNCHANGED << context, num_co_ocurrences, heap, instances, labels_classes,
                    label_sets, label, feature_sets, sample, training_set, test_set,
                    classifier, accuracy_printed, total, divide, train_set >>

\* ------------------------------------------------------ features and split

\* "for instance in instances" of the feature cell, from list position k on.
RECURSIVE FeatureLoop(_, _, _)
FeatureLoop(lbl, k, acc) ==
    IF k > Len(instances) \/ acc.raised THEN acc
    ELSE LET instance    == heap[instances[k]]
             label_word  == lbl[1]
             label_sense == lbl[2]
             word        == instance.context[instance.position + 1][1]
             call        == ContextCall(instance.position, instance.context, context)
         IN  IF ~(label_word = instance.word /\ IsSubstring(label_sense, instance.senses))
             THEN FeatureLoop(lbl, k + 1, acc)
             ELSE FeatureLoop(lbl, k + 1,
                     [raised |-> call.result.raised,
                      value  |-> IF call.result.raised THEN acc.value
                                 ELSE Append(acc.value,
                                        << extract_features(word, call.result.left,
                                              call.result.right,
                                              co_occurrences_per_classword[label_word]),
                                           lbl >>),
                      calls  |-> acc.calls \cup {call}])

\* The lists random.shuffle(s) can leave in s: every arrangement of its
\* elements (equal elements are told apart by nothing, so each arrangement is
\* built once, by the first position of the element it starts with).
RECURSIVE Shuffles(_)
Shuffles(s) ==
    IF s = <<>> THEN { <<>> }
    ELSE UNION { { <<s[i]>> \o rest : rest \in Shuffles(RemoveAt(s, i)) } :
                 i \in {k \in 1..Len(s) : \A j \in 1..(k - 1) : s[j] # s[k]} }

\* int(len(feature_sets)*0.2)
SplitIndex(n) == (n * 2) \div 10

\* feature_sets[sample+1:]
TrainingSlice(shuffled, split) == PySliceFrom(shuffled, split + 1)

\* feature_sets[:sample]
TestSlice(shuffled, split) == PySliceTo(shuffled, split)

\* One pass of "for label in label_sets".
\* A pass of the feature loop that empties the vocabulary of the label's word.
BuildFeatureSets_ResetsVocabulary ==
    /\ pc = "features"
    /\ \E lbl \in labels_todo :
          /\ labels_todo' = labels_todo \ {lbl}
          /\ label' = lbl
          /\ co_occurrences_per_classword' =
                [co_occurrences_per_classword EXCEPT ![lbl[1]] = <<>>]
          /\ pc' = IF labels_todo' = {} THEN "done" ELSE "features"
    /\ UNCHANGED << context, num_co_ocurrences, heap, instances, labels_classes,
                    label_sets, classwords_todo, classword, lemmas_for_class,
                    train_set_per_class, test_set_per_class, feature_sets,
                    sample, training_set, test_set, context_calls,
                    classifier, accuracy_printed, total, divide, train_set >>

BuildFeatureSets ==
    /\ pc = "features"
    /\ \E lbl \in labels_todo :
          LET loop == FeatureLoop(lbl, 1, [raised |-> FALSE, value |-> <<>>, calls |-> {}])
          IN  /\ context_calls' = context_calls \cup loop.calls
              /\ labels_todo' = labels_todo \ {lbl}
              /\ label' = lbl
              /\ IF loop.raised
                 THEN /\ pc' = "error"
                      /\ UNCHANGED << feature_sets, sample, training_set, test_set,
                                      train_set_per_class, test_set_per_class >>
                 ELSE \E shuffled \in Shuffles(loop.value) :
                      /\ feature_sets' = shuffled
                      /\ sample' = SplitIndex(Len(shuffled))
                      /\ training_set' = TrainingSlice(shuffled, sample')
                      /\ train_set_per_class' =
                            [train_set_per_class EXCEPT ![lbl[1]] = @ \o training_set']
                      /\ test_set' = TestSlice(shuffled, sample')
                      /\ test_set_per_class' =
                            [test_set_per_class EXCEPT ![lbl[1]] = @ \o test_set']
                      /\ pc' = IF labels_todo' = {} THEN "done" ELSE "features"
    /\ UNCHANGED << context, num_co_ocurrences, heap, instances, labels_classes,
                    label_sets, classwords_todo, classword, lemmas_for_class,
                    co_occurrences_per_classword,
                    classifier, accuracy_printed, total, divide, train_set >>

\* ------------------------------------------------- training and evaluation

\* NaiveBayesClassifier.train(labeled_featuresets): the classifier is kept
\* as the key it was trained for (<<>> for the merged one) and the labels of
\* its training pairs, the only labels classify can return.  Training on no
\* pair raises ValueError (a probability distribution over no label).
NaiveBayesClassifierTrain(key, labeled_featuresets) ==
    [raised |-> labeled_featuresets = <<>>,
     key    |-> key,
     labels |-> { labeled_featuresets[k][2] : k \in 1..Len(labeled_featuresets) }]

\* sum(correct) for one way classify_many can label the records of gold:
\* pred gives each feature record its label.
NumCorrect(pred, gold) ==
    Cardinality({ k \in 1..Len(gold) : pred[gold[k][1]] = gold[k][2] })

\* nltk.classify.accuracy(classifier, gold): sum(correct) / len(correct) if
\* correct is not empty, else the number 0.  The values are kept as the
\* fraction num/den; nan marks a value that is not a number.
accuracy(labels, gold) ==
    IF gold = <<>>
    THEN { [nan |-> FALSE, num |-> 0, den |-> 1] }
    ELSE { [nan |-> FALSE, num |-> NumCorrect(pred, gold), den |-> Len(gold)] :
             pred \in [ { gold[k][1] : k \in 1..Len(gold) } -> labels ] }

\* The per-word cell, for the class word `key` ('hard-a' in the notebook).
TrainPerWord ==
    /\ pc = "done"
    /\ \E key \in DOMAIN train_set_per_class :
          LET trained == NaiveBayesClassifierTrain(key, train_set_per_class[key])
          IN  IF trained.raised
              THEN /\ pc' = "error"
                   /\ UNCHANGED << classifier, accuracy_printed >>
              ELSE /\ classifier' = trained
                   /\ accuracy_printed' \in accuracy(trained.labels, test_set_per_class[key])
                   /\ pc' = "trained"
    /\ UNCHANGED << context, num_co_ocurrences, heap, instances, labels_classes,
                    label_sets, classwords_todo, classword, lemmas_for_class,
                    labels_todo, label, co_occurrences_per_classword,
                    train_set_per_class, test_set_per_class, feature_sets,
                    sample, training_set, test_set, total, divide, train_set,
                    context_calls >>

\* ------------------------------------------------------------ merged cell

\* sub_train_set / sub_test_set: the lists of d over its keys, one after the
\* other (the order of the keys does not outlive the shuffle that follows).
RECURSIVE ConcatOverKeys(_, _)
ConcatOverKeys(keys, d) ==
    IF keys = {} THEN <<>>
    ELSE LET key == CHOOSE x \in keys : TRUE
         IN  d[key] \o ConcatOverKeys(keys \ {key}, d)

\* sub_train_set + sub_test_set
MergedPool ==
    ConcatOverKeys(DOMAIN train_set_per_class, train_set_per_class)
    \o ConcatOverKeys(DOMAIN test_set_per_class, test_set_per_class)

\* MergedTrainSlice leaving out the record at the split index.
MergedTrainSlice_SkipOne(shuffled, split) == PySliceFrom(shuffled, split + 1)

\* total[divide:]
MergedTrainSlice(shuffled, split) == PySliceFrom(shuffled, split)

\* total[:divide]
MergedTestSlice(shuffled, split) == PySliceTo(shuffled, split)

\* The cell that merges the per-class sets, splits again, trains and prints.
MergeCell ==
    /\ pc = "trained"
    /\ \E shuffled \in Shuffles(MergedPool) :
          LET trained == NaiveBayesClassifierTrain(<<>>,
                            MergedTrainSlice(shuffled, SplitIndex(Len(shuffled))))
          IN  /\ total' = shuffled
              /\ divide' = SplitIndex(Len(shuffled))
              /\ train_set' = MergedTrainSlice(shuffled, divide')
              /\ test_set' = MergedTestSlice(shuffled, divide')
              /\ IF trained.raised
                 THEN /\ pc' = "error"
                      /\ UNCHANGED << classifier, accuracy_printed >>
                 ELSE /\ classifier' = trained
                      /\ accuracy_printed' \in accuracy(trained.labels, test_set')
                      /\ pc' = "merged"
    /\ UNCHANGED << context, num_co_ocurrences, heap, instances, labels_classes,
                    label_sets, classwords_todo, classword, lemmas_for_class,
                    labels_todo, label, co_occurrences_per_classword,
                    train_set_per_class, test_set_per_class, feature_sets,
                    sample, training_set, context_calls >>

Next ==
    \/ LoadInstance
    \/ EndLoad
    \/ BuildCoOccurrences
    \/ BuildFeatureSets

Spec == Init /\ [][Next]_vars

\* The notebook run to its last cell with the settings it is written with:
\* the widest window and the longest vocabulary (context = 2 and
\* num_co_ocurrences = 12 in the notebook).
InitNotebook ==
    /\ Init
    /\ context = MaxContext
    /\ num_co_ocurrences = MaxCoOcurrences

NextNotebook ==
    \/ Next
    \/ TrainPerWord
    \/ MergeCell

SpecNotebook == InitNotebook /\ [][NextNotebook]_vars


\* ------------------------------------------------------------------ claims

\* Every (features, label) pair the pipeline holds: the feature_sets of the
\* last label and the per-class training and test sets.
AllPairs ==
    {feature_sets[k] : k \in 1..Len(feature_sets)}
    \cup UNION {{train_set_per_class[w][k] : k \in 1..Len(train_set_per_class[w])} :
                w \in DOMAIN train_set_per_class}
    \cup UNION {{test_set_per_class[w][k] : k \in 1..Len(test_set_per_class[w])} :
                w \in DOMAIN test_set_per_class}

\* C1: the split loses no record: the test slice followed by the training
\* slice is the whole shuffled feature_sets, so their lengths add up to its
\* length.
C1_SplitLosesNoRecord ==
    /\ Len(test_set) + Len(training_set) = Len(feature_sets)
    /\ test_set \o training_set = feature_sets

\* The number of feature records the feature cell builds for class word w,
\* over all labels of w.
NumRecordsOfWord(w) ==
    Cardinality({ <<l, k>> \in label_sets \X (1..Len(instances)) :
                    /\ l[1] = w
                    /\ heap[instances[k]].word = w
                    /\ IsSubstring(l[2], heap[instances[k]].senses) })

\* C2: once every label is split, the test set of a word with n feature
\* records holds floor(0.2 n) of them and its training set the other
\* n - floor(0.2 n).
C2_PerWordSplitSizes ==
    pc = "done" =>
        \A w \in DOMAIN test_set_per_class :
            LET n == NumRecordsOfWord(w)
            IN  /\ Len(test_set_per_class[w]) = (2 * n) \div 10
                /\ Len(train_set_per_class[w]) = n - ((2 * n) \div 10)

\* C3: every sense of a loaded instance is the sense of exactly one of the
\* entries that instance added to the list (labels_classes[k][2] is the sense
\* for which entry k was appended).
C3_OneEntryPerSense ==
    \A k \in 1..Len(instances) :
        Cardinality({ j \in 1..Len(instances) :
                        /\ instances[j] = instances[k]
                        /\ heap[instances[j]].senses = labels_classes[k][2] }) = 1

\* C4: every call of extract_context that returns gives at most `window`
\* pairs on each side, hence at most 2 * window in all.
C4_WindowSizeBound ==
    \A c \in context_calls :
        ~c.result.raised =>
            /\ Len(c.result.left) <= c.window
            /\ Len(c.result.right) <= c.window
            /\ Len(c.result.left) + Len(c.result.right) <= 2 * c.window

\* C5: every call of extract_context that returns gives the last
\* min(window, L) normalized pairs before the target and the first
\* min(window, R) after it, in sentence order, where L and R count the pairs
\* left by normalization on each side.
C5_WindowContents ==
    \A c \in context_calls :
        ~c.result.raised =>
            LET before == tokenize(SubSeq(c.text, 1, c.target_position)).value
                after  == tokenize(SubSeq(c.text, c.target_position + 2, Len(c.text))).value
                nl     == Min(c.window, Len(before))
                nr     == Min(c.window, Len(after))
            IN  /\ c.result.left = SubSeq(before, Len(before) - nl + 1, Len(before))
                /\ c.result.right = SubSeq(after, 1, nr)


\* The calls of extract_context made for the instances of class word w at the
\* configured window size.
CallsOfWord(w) ==
    { c \in context_calls :
        /\ c.window = context
        /\ \E k \in 1..Len(instances) :
              /\ heap[instances[k]].word = w
              /\ heap[instances[k]].position = c.target_position
              /\ heap[instances[k]].context = c.text }

\* The tokens of the windows a call returned.
WindowTokens(c) ==
    {c.result.left[i][1] : i \in 1..Len(c.result.left)}
    \cup {c.result.right[i][1] : i \in 1..Len(c.result.right)}

\* The distinct eligible context tokens of class word w: in a window of one of
\* its instances, no stopword, at least 2 characters long.
EligibleTokens(w) ==
    { t \in UNION {WindowTokens(c) : c \in CallsOfWord(w)} :
        t \notin StopWords /\ Len(t) >= 2 }

\* The class words whose vocabulary the vocabulary cell has finished.
BuiltClassWords == DOMAIN train_set_per_class

\* C6: the co-occurrence bits of every feature record built for a word have
\* one entry per token of that word's vocabulary, 1 where the token occurs
\* among the record's context tokens and 0 elsewhere.
C6_CoOccurrenceBits ==
    \A p \in AllPairs :
        LET bits       == p[1].co_occ
            vocabulary == co_occurrences_per_classword[p[2][1]]
        IN  /\ Len(bits) = Len(vocabulary)
            /\ \A i \in 1..Len(vocabulary) :
                  bits[i] = IF \E j \in 1..Len(p[1].context) : p[1].context[j] = vocabulary[i]
                            THEN 1 ELSE 0

\* A record with a token of the vocabulary in its context and another one not.
C6_Witness ==
    \E p \in AllPairs :
        \E i, j \in 1..Len(p[1].co_occ) : p[1].co_occ[i] = 1 /\ p[1].co_occ[j] = 0

\* C7: the vocabulary of every word holds no token twice and has
\* min(num_co_ocurrences, d) tokens, d being the number of distinct eligible
\* context tokens of the word.
C7_VocabularySize ==
    \A w \in BuiltClassWords :
        LET vocabulary == co_occurrences_per_classword[w]
        IN  /\ \A i, j \in 1..Len(vocabulary) : vocabulary[i] = vocabulary[j] => i = j
            /\ Len(vocabulary) = Min(num_co_ocurrences, Cardinality(EligibleTokens(w)))

\* A word with more distinct eligible tokens than the limit, and a vocabulary
\* of exactly the limit.
C7_Witness ==
    \E w \in BuiltClassWords :
        /\ Cardinality(EligibleTokens(w)) > num_co_ocurrences
        /\ Len(co_occurrences_per_classword[w]) = num_co_ocurrences

\* Position of the first occurrence of t in list s.
FirstIndex(t, s) == CHOOSE i \in 1..Len(s) : s[i] = t /\ \A j \in 1..(i - 1) : s[j] # t

\* C8: the vocabulary just built lists tokens of lemmas_for_class by descending
\* frequency, tokens of equal frequency in the order in which they were first
\* met, and no token left out is more frequent than one kept.  (Every word's
\* vocabulary is the one just built in the state that follows its pass.)
C8_VocabularyOrder ==
    classword \in BuiltClassWords =>
        LET vocabulary == co_occurrences_per_classword[classword]
            collected  == {lemmas_for_class[i] : i \in 1..Len(lemmas_for_class)}
            kept       == {vocabulary[i] : i \in 1..Len(vocabulary)}
        IN  /\ kept \subseteq collected
            /\ \A i, j \in 1..Len(vocabulary) :
                  i < j =>
                     \/ Count(vocabulary[i], lemmas_for_class) > Count(vocabulary[j], lemmas_for_class)
                     \/ /\ Count(vocabulary[i], lemmas_for_class) = Count(vocabulary[j], lemmas_for_class)
                        /\ FirstIndex(vocabulary[i], lemmas_for_class)
                              < FirstIndex(vocabulary[j], lemmas_for_class)
            /\ \A t \in collected \ kept : \A u \in kept :
                  Count(t, lemmas_for_class) <= Count(u, lemmas_for_class)

\* A vocabulary in which a more frequent token stands before one met earlier,
\* with a token left out that is as frequent as one kept.
C8_Witness ==
    /\ classword \in BuiltClassWords
    /\ LET vocabulary == co_occurrences_per_classword[classword]
       IN  /\ \E i, j \in 1..Len(vocabulary) :
                 /\ i < j
                 /\ FirstIndex(vocabulary[i], lemmas_for_class)
                       > FirstIndex(vocabulary[j], lemmas_for_class)
           /\ \E k \in 1..Len(lemmas_for_class) : \E i \in 1..Len(vocabulary) :
                 /\ \A j \in 1..Len(vocabulary) : vocabulary[j] # lemmas_for_class[k]
                 /\ Count(lemmas_for_class[k], lemmas_for_class)
                       = Count(vocabulary[i], lemmas_for_class)

\* C9: every token of the vocabulary of word w is in the left or right window
\* (at the configured size) of an instance whose word is w, is no stopword and
\* has at least 2 characters.
C9_VocabularyMembership ==
    \A w \in DOMAIN co_occurrences_per_classword :
        \A i \in 1..Len(co_occurrences_per_classword[w]) :
            LET t == co_occurrences_per_classword[w][i]
            IN  /\ t \notin StopWords
                /\ Len(t) >= 2
                /\ \E c \in CallsOfWord(w) : t \in WindowTokens(c)

\* Two words with vocabularies, where a token of one word's windows is not in
\* the other's vocabulary and a stopword of a window was kept out.
C9_Witness ==
    \E w1, w2 \in BuiltClassWords :
        /\ w1 # w2
        /\ co_occurrences_per_classword[w1] # <<>>
        /\ co_occurrences_per_classword[w2] # <<>>
        /\ \E c \in CallsOfWord(w1) : \E t \in WindowTokens(c) : t \in StopWords
        /\ \A i \in 1..Len(co_occurrences_per_classword[w2]) :
              \A c \in CallsOfWord(w1) : co_occurrences_per_classword[w2][i] \notin WindowTokens(c)

\* The lemma portion of an instance's word attribute: what stands before "-".
LemmaOf(w) ==
    IF \E i \in 1..Len(w) : w[i] = "-"
    THEN SubSeq(w, 1, (CHOOSE i \in 1..Len(w) : w[i] = "-" /\ \A j \in 1..(i - 1) : w[j] # "-") - 1)
    ELSE w

\* C10 as first stated: the word field of every feature record is the lemma
\* portion of its instance's word attribute.
C10_WordIsLemma ==
    \A p \in AllPairs : p[1].word = LemmaOf(p[2][1])

\* C10: the word field of every feature record is the token at the target
\* position of the context of an instance of the record's label (the one whose
\* windows the record holds), cut before its first ".".
C10_WordIsTargetToken ==
    \A p \in AllPairs :
        \E k \in 1..Len(instances) :
            LET instance == heap[instances[k]]
                token    == instance.context[instance.position + 1][1]
                word     == p[1].word
            IN  /\ instance.word = p[2][1]
                /\ IsSubstring(p[2][2], instance.senses)
                /\ \E c \in CallsOfWord(instance.word) :
                      /\ c.target_position = instance.position
                      /\ c.text = instance.context
                      /\ p[1].context = ContextText(c.result.left, c.result.right)
                /\ \A i \in 1..Len(word) : word[i] # "."
                /\ Len(word) <= Len(token)
                /\ SubSeq(token, 1, Len(word)) = word
                /\ (Len(word) = Len(token) \/ token[Len(word) + 1] = ".")

\* Two records of one target word with different word fields, and a record
\* whose word field is a target token cut at a ".".
C10_Witness ==
    /\ \E p, q \in AllPairs : p[2][1] = q[2][1] /\ p[1].word # q[1].word
    /\ \E p \in AllPairs : \E k \in 1..Len(instances) :
          /\ heap[instances[k]].word = p[2][1]
          /\ Len(p[1].word) < Len(heap[instances[k]].context[heap[instances[k]].position + 1][1])
          /\ SubSeq(heap[instances[k]].context[heap[instances[k]].position + 1][1],
                    1, Len(p[1].word) + 1) = Append(p[1].word, ".")



\* C13: no call of extract_context raises, whatever the tokens of the context
\* (empty, blank or punctuation) and wherever the target stands in it.
C13_ExtractContextNeverFails ==
    \A c \in context_calls : ~c.result.raised

\* The k-th pair of the left window followed by the right window.
WindowPair(c, k) ==
    IF k <= Len(c.result.left) THEN c.result.left[k]
    ELSE c.result.right[k - Len(c.result.left)]

\* C15: in every feature record, context is the tokens of the left window
\* followed by those of the right window of one call of extract_context,
\* pos_context has the same length, and pos_context[i] is the tag of the pair
\* whose token is context[i].
C15_TokenPosAlignment ==
    \A p \in AllPairs :
        /\ Len(p[1].context) = Len(p[1].pos_context)
        /\ \E c \in context_calls :
              /\ ~c.result.raised
              /\ Len(p[1].context) = Len(c.result.left) + Len(c.result.right)
              /\ \A i \in 1..Len(p[1].context) :
                    /\ p[1].context[i] = WindowPair(c, i)[1]
                    /\ p[1].pos_context[i] = WindowPair(c, i)[2]

\* A feature record is stored whose windows are both non-empty and whose
\* first and last tags differ.
C15_Witness ==
    \E p \in AllPairs :
        \E c \in context_calls :
            /\ ~c.result.raised
            /\ c.result.left # <<>>
            /\ c.result.right # <<>>
            /\ p[1].context = ContextText(c.result.left, c.result.right)
            /\ p[1].pos_context[1] # p[1].pos_context[Len(p[1].pos_context)]

\* The entries of the instance list that hold word and sense of label l.
EntriesOfLabel(l) ==
    { k \in 1..Len(instances) :
        /\ heap[instances[k]].word = l[1]
        /\ heap[instances[k]].senses = l[2] }

\* C16: a pass of the feature loop builds one feature record for each entry
\* of the instance list whose word and sense are the label's, and none for
\* any other entry, also when the label's sense id is a substring of the
\* entry's.
C16_PartitionedByLabel ==
    (pc \in {"features", "done"} /\ label # <<>>) =>
        Len(feature_sets) = Cardinality(EntriesOfLabel(label))


\* C12: the accuracy the per-word cell prints is the number of correct
\* predictions over the number of test records, and for an empty test set it
\* is a value that is not a number.
C12_EmptyTestSetIsNaN ==
    pc = "trained" =>
        LET gold == test_set_per_class[classifier.key]
        IN  IF gold = <<>>
            THEN accuracy_printed.nan
            ELSE /\ ~accuracy_printed.nan
                 /\ accuracy_printed.den = Len(gold)
                 /\ accuracy_printed.num <= Len(gold)


\* The feature record the feature loop builds for entry k of the instance
\* list.
RecordOfEntry(k) ==
    LET instance == heap[instances[k]]
        call     == ContextCall(instance.position, instance.context, context)
    IN  extract_features(instance.context[instance.position + 1][1],
                         call.result.left, call.result.right,
                         co_occurrences_per_classword[instance.word])

\* C17: once every label is split, each pair kept for class word w carries a
\* label of w, each feature record is kept at most once in the training and
\* test sets of w taken together (no more often than there are entries of w
\* it was built from), and the classifier trained on the training set of w
\* returns labels of w only.
C17_PerWordSetsWordPure ==
    pc \in {"done", "trained"} =>
        \A w \in DOMAIN train_set_per_class :
            LET kept == train_set_per_class[w] \o test_set_per_class[w]
            IN  /\ \A k \in 1..Len(kept) : kept[k][2][1] = w
                /\ \A k \in 1..Len(kept) :
                      Cardinality({ j \in 1..Len(kept) : kept[j][1] = kept[k][1] })
                        <= Cardinality({ j \in 1..Len(instances) :
                                           /\ heap[instances[j]].word = w
                                           /\ RecordOfEntry(j) = kept[k][1] })
                /\ (pc = "trained" /\ classifier.key = w) =>
                      \A l \in classifier.labels : l[1] = w


\* C14: a pass of the feature loop for a label of word w starts only when the
\* vocabulary loop has visited every class word, w among them, and once the
\* vocabulary cell is left no step of feature extraction, splitting,
\* training or evaluation changes the vocabulary of any word.
C14_VocabularyFixedBeforeUse ==
    [][ /\ label' # label =>
              /\ classwords_todo = {}
              /\ label'[1] \in DOMAIN co_occurrences_per_classword
              /\ DOMAIN co_occurrences_per_classword = { l[1] : l \in label_sets }
        /\ pc \notin {"load", "vocab"} =>
              co_occurrences_per_classword' = co_occurrences_per_classword ]_vars

\* The whole notebook has run over a word that has tokens in its vocabulary
\* and records in its training set.
C14_Witness ==
    /\ pc = "merged"
    /\ \E w \in DOMAIN co_occurrences_per_classword :
          /\ co_occurrences_per_classword[w] # <<>>
          /\ train_set_per_class[w] # <<>>

\* a and b hold the same records, each as often in one as in the other.
SameRecords(a, b) ==
    /\ Len(a) = Len(b)
    /\ \A k \in 1..Len(a) : Count(a[k], a) = Count(a[k], b)

\* C11 as stated: the merged training set holds exactly the records of the
\* per-word training sets and the merged test set exactly those of the
\* per-word test sets.
C11_MergedIsConcatenation ==
    pc = "merged" =>
        /\ SameRecords(train_set,
                       ConcatOverKeys(DOMAIN train_set_per_class, train_set_per_class))
        /\ SameRecords(test_set,
                       ConcatOverKeys(DOMAIN test_set_per_class, test_set_per_class))

\* C11 amended: the merged test set followed by the merged training set is
\* one arrangement of the pool of all per-word training and test records,
\* the test set being its first floor(0.2 n) records.
C11_MergedIsResplitOfPool ==
    pc = "merged" =>
        /\ test_set \o train_set = total
        /\ SameRecords(total, MergedPool)
        /\ Len(test_set) = (2 * Len(MergedPool)) \div 10
        /\ Len(train_set) = Len(MergedPool) - Len(test_set)

\* The merged split holds out at least one record, and a record held out in
\* a per-word test set is in the merged training set more often than in the
\* per-word training sets.
C11_Witness ==
    /\ pc = "merged"
    /\ divide >= 1
    /\ \E w \in DOMAIN test_set_per_class :
          \E k \in 1..Len(test_set_per_class[w]) :
              Count(test_set_per_class[w][k], train_set) >
                  Count(test_set_per_class[w][k],
                        ConcatOverKeys(DOMAIN train_set_per_class, train_set_per_class))

====
